---- MODULE Spec2Model ----
(***************************************************************************)
(* A model of instagram_comment.py: the .env parser (load_env and the      *)
(* get_required / get_optional / str_to_bool helpers), the Chrome session  *)
(* bootstrap with its fallback attempts (build_driver), the three stages   *)
(* login, navigate_to_first_post and leave_comment, and main, which runs   *)
(* them and maps their failures to exit codes.                             *)
(*                                                                         *)
(* Text is modelled as a sequence of one-character strings, so that        *)
(* strip(), lower(), startswith() and the slice value[1:-1] are computed   *)
(* as Python computes them.  An optional value (a dict entry that may be   *)
(* missing, or "str | None") is a record [some, val].                      *)
(***************************************************************************)
EXTENDS Integers, Sequences, FiniteSets, TLC

\* ------------------------------------------------------------------ bounds

\* Longest raw line of a .env file enumerated by SpecEnv.
MaxLineLen == 5

\* ------------------------------------------------------------- text helpers

DQ == "\""
SQ == "'"

None == [some |-> FALSE, val |-> <<>>]
Some(v) == [some |-> TRUE, val |-> v]

\* All sequences over S of length at most n.
SeqsUpTo(S, n) == UNION {[1..k -> S] : k \in 0..n}

\* The characters str.strip() removes (the model's only whitespace).
IsSpace(c) == c = " "

RECURSIVE LStrip(_)
LStrip(s) == IF s # <<>> /\ IsSpace(Head(s)) THEN LStrip(Tail(s)) ELSE s

RECURSIVE RStrip(_)
RStrip(s) ==
    IF s # <<>> /\ IsSpace(s[Len(s)]) THEN RStrip(SubSeq(s, 1, Len(s) - 1)) ELSE s

\* str.strip()
Strip(s) == RStrip(LStrip(s))

\* str.startswith(c) / str.endswith(c) for a one-character c
StartsWith(s, c) == s # <<>> /\ s[1] = c
EndsWith(s, c) == s # <<>> /\ s[Len(s)] = c

\* The slice s[1:-1]
Slice1m1(s) == SubSeq(s, 2, Len(s) - 1)

\* c in s, for a one-character c
Contains(s, c) == \E i \in 1..Len(s) : s[i] = c

\* Index of the first occurrence of c in s (s contains c).
FirstIndex(s, c) == CHOOSE i \in 1..Len(s) : s[i] = c /\ \A j \in 1..(i - 1) : s[j] # c

LowerChar(c) ==
    CASE c = "N" -> "n" [] c = "O" -> "o" [] c = "E" -> "e" [] c = "D" -> "d"
      [] c = "I" -> "i" [] c = "S" -> "s" [] c = "A" -> "a" [] c = "B" -> "b"
      [] c = "L" -> "l" [] c = "F" -> "f" [] c = "T" -> "t" [] c = "R" -> "r"
      [] c = "U" -> "u" [] c = "Y" -> "y"
      [] OTHER -> c

\* str.lower()
Lower(s) == [i \in 1..Len(s) |-> LowerChar(s[i])]

\* ------------------------------------------------------------------ load_env

\* Lines 73-77: the value after the first "=", trimmed, then unquoted.
StripQuotes(value) ==
    IF StartsWith(value, DQ) /\ EndsWith(value, DQ) THEN Slice1m1(value)
    ELSE IF StartsWith(value, SQ) /\ EndsWith(value, SQ) THEN Slice1m1(value)
    ELSE value

ParseValue(raw) == StripQuotes(Strip(raw))

\* Lines 67-78 for one raw line: what the line adds to the mapping, if anything.
ParseLine(raw_line) ==
    LET line == Strip(raw_line) IN
    IF line = <<>> \/ StartsWith(line, "#") THEN [skipped |-> TRUE, key |-> <<>>, value |-> <<>>]
    ELSE IF ~Contains(line, "=") THEN [skipped |-> TRUE, key |-> <<>>, value |-> <<>>]
    ELSE LET i == FirstIndex(line, "=")
             key == SubSeq(line, 1, i - 1)
             value == SubSeq(line, i + 1, Len(line))
         IN [skipped |-> FALSE, key |-> Strip(key), value |-> ParseValue(value)]

\* ------------------------------------------------- get_required and friends

ENV_USERNAME_KEY == "INSTAGRAM_USERNAME"
ENV_PASSWORD_KEY == "INSTAGRAM_PASSWORD"
ENV_COMMENT_KEY == "INSTAGRAM_COMMENT"
ENV_PROFILE_KEY == "INSTAGRAM_PROFILE_URL"
ENV_CHROME_PROFILE_DIR == "CHROME_USER_DATA_DIR"
ENV_CHROME_HEADLESS == "CHROME_HEADLESS"

\* The required keys in the order main reads them (lines 294-297).
RequiredKeys == <<ENV_USERNAME_KEY, ENV_PASSWORD_KEY, ENV_COMMENT_KEY, ENV_PROFILE_KEY>>
OptionalKeys == {ENV_CHROME_PROFILE_DIR, ENV_CHROME_HEADLESS}
AllKeys == {RequiredKeys[i] : i \in 1..Len(RequiredKeys)} \cup OptionalKeys

\* get_required: the value, or the EnvConfigError it raises.
GetRequired_AcceptEmpty(values, key) ==
    IF ~values[key].some
    THEN [ok |-> FALSE, value |-> <<>>,
          error |-> <<"Missing required environment variable:", key>>]
    ELSE [ok |-> TRUE, value |-> values[key].val, error |-> <<>>]

GetRequired(values, key) ==
    IF ~values[key].some
    THEN [ok |-> FALSE, value |-> <<>>,
          error |-> <<"Missing required environment variable:", key>>]
    ELSE IF values[key].val = <<>>
    THEN [ok |-> FALSE, value |-> <<>>,
          error |-> <<"Environment variable", key, "is empty">>]
    ELSE [ok |-> TRUE, value |-> values[key].val, error |-> <<>>]

\* get_optional: None when the key is missing or blank, else the trimmed value.
GetOptional(values, key) ==
    IF ~values[key].some THEN None
    ELSE LET stripped == Strip(values[key].val) IN
         IF stripped = <<>> THEN None ELSE Some(stripped)

\* str_to_bool
StrToBool(value, default) ==
    IF ~value.some THEN default
    ELSE LET normalized == Lower(Strip(value.val)) IN
         IF normalized \in {<<"1">>, <<"t", "r", "u", "e">>, <<"y", "e", "s">>, <<"o", "n">>}
         THEN TRUE
         ELSE IF normalized \in {<<"0">>, <<"f", "a", "l", "s", "e">>, <<"n", "o">>,
                                 <<"o", "f", "f">>}
         THEN FALSE
         ELSE default

\* Lines 300-304: the values of CHROME_USER_DATA_DIR that switch the profile off.
DisableSentinels ==
    {<<"n", "o", "n", "e">>, <<"d", "i", "s", "a", "b", "l", "e">>,
     <<"d", "i", "s", "a", "b", "l", "e", "d">>}

DefaultProfileDir == <<".selenium-profile">>

\* Lines 299-307 with the sentinel compared as written, without lower().
UserDataDir_CaseSensitive(profile_dir_value) ==
    IF profile_dir_value.some /\ Strip(profile_dir_value.val) \in DisableSentinels
    THEN None
    ELSE Some(IF profile_dir_value.some THEN profile_dir_value.val ELSE DefaultProfileDir)

\* Lines 299-307: the directory main hands to build_driver.
UserDataDir(profile_dir_value) ==
    IF profile_dir_value.some /\ Lower(Strip(profile_dir_value.val)) \in DisableSentinels
    THEN None
    ELSE Some(IF profile_dir_value.some THEN profile_dir_value.val ELSE DefaultProfileDir)

\* ------------------------------------------------------------- build_driver

WarnHeadless == "Chrome failed to start headless; retrying with a visible browser window."
WarnProfile == "Chrome failed to start with the persistent profile; retrying without it."
NoMessage == ""

\* Lines 150-170 with the two fallbacks appended in the other order.
Attempts_ProfileFallbackFirst(headless_arg, dir_arg) ==
    <<[headless |-> headless_arg, dir |-> dir_arg, message |-> NoMessage]>>
    \o (IF dir_arg.some
        THEN <<[headless |-> FALSE, dir |-> None, message |-> WarnProfile]>>
        ELSE <<>>)
    \o (IF headless_arg
        THEN <<[headless |-> FALSE, dir |-> dir_arg, message |-> WarnHeadless]>>
        ELSE <<>>)

\* Lines 150-170: the attempt list.
Attempts(headless_arg, dir_arg) ==
    <<[headless |-> headless_arg, dir |-> dir_arg, message |-> NoMessage]>>
    \o (IF headless_arg
        THEN <<[headless |-> FALSE, dir |-> dir_arg, message |-> WarnHeadless]>>
        ELSE <<>>)
    \o (IF dir_arg.some
        THEN <<[headless |-> FALSE, dir |-> None, message |-> WarnProfile]>>
        ELSE <<>>)

\* An exception: its class and its message (msg is None for exc.msg = None).
Exc(type, msg) == [type |-> type, msg |-> msg]
NoExc == Exc("", None)

\* str(exc): the text the handlers of main print.
ExcText(e) == IF e.msg.some THEN e.msg.val ELSE <<>>

\* Line 181-182: the start failures that are retried.
Recoverable(e) ==
    LET error_message == IF e.msg.some THEN e.msg.val ELSE <<>> IN
    Contains(error_message, "DevToolsActivePort") \/ Contains(error_message, "crashed")

\* The messages a SessionNotCreatedException of webdriver.Chrome may carry.
StartMessages ==
    {None, Some(<<>>), Some(<<"DevToolsActivePort", "file", "doesn't", "exist">>),
     Some(<<"Chrome", "instance", "crashed">>), Some(<<"version", "mismatch">>)}

\* -------------------------------------------------------------------- state

VARIABLES
    env_line,            \* SpecEnv: one raw line of a .env file
    env_entry,           \* SpecEnv: what load_env stored for it
    file_exists,         \* the .env file exists
    env_file,            \* the file's text: for each key, the raw text after "=", or None
    env_values,          \* main: env_values
    required_values,     \* main: username, password, comment, profile_url
    headless,            \* main: headless
    user_data_dir,       \* main: user_data_dir
    attempts,            \* build_driver: attempts
    attempt_idx,         \* build_driver: position of the for loop in attempts
    last_error,          \* build_driver: last_error
    attempts_made,       \* history: the attempts started, in order
    attempt_errors,      \* history: the failures met by the attempts of the call in progress
    driver,              \* the session handle: "none", "live" or "quit"
    handles_created,     \* history: handles webdriver.Chrome returned
    quit_count,          \* history: calls of driver.quit()
    op_after_quit,       \* history: a driver call was issued on a handle not live
    pc,                  \* position of the run
    pending,             \* the exception propagating inside main's try block
    raised_at,           \* history: the call that raised it
    ret,                 \* main: the return value waiting for the finally block
    exit_code,           \* the value main returned (NoExit: none so far)
    unhandled,           \* the exception that left main
    stdout,
    stderr,
    stage_calls,         \* history: the stage functions called, in order
    login_branch,        \* login: the branch line 206 took
    landmark_seen,       \* history: the '/explore/' link was found present in login
    creds_typed,         \* history: credential fields filled by login
    form_submitted,      \* history: login sent ENTER
    nav_iter,            \* navigate_to_first_post: iterations of range(10) completed
    nav_sel,             \* navigate_to_first_post: the selector the inner loop is at
    nav_finds,           \* history: find_elements calls of this call
    nav_iter_candidates, \* history: candidates scrolled into view in the current iteration
    nav_page_scrolls,    \* history: window.scrollBy calls of this call
    nav_absorbed,        \* history: "none", "wait_timeouts" (only timeouts of the 5-second wait) or "mixed"
    nav_last,            \* history: the failure the loop absorbed last
    nav_clicked,         \* history: a click succeeded
    comment_steps,       \* history: the steps of leave_comment, in order
    textarea,            \* leave_comment: textarea (0: unset)
    presence_element,    \* history: the element the presence wait returned (0: none)
    clickable_element,   \* history: the element the clickable wait returned (0: none)
    typed_into           \* history: the elements the comment text was typed into

envVars == <<env_line, env_entry>>
cfgVars == <<file_exists, env_file, env_values, required_values, headless, user_data_dir>>
bootVars == <<attempts, attempt_idx, last_error, attempts_made, attempt_errors>>
drvVars == <<driver, handles_created, quit_count, op_after_quit>>
outVars == <<exit_code, unhandled, stdout, stderr>>
loginVars == <<login_branch, landmark_seen, creds_typed, form_submitted>>
navVars == <<nav_iter, nav_sel, nav_finds, nav_iter_candidates, nav_page_scrolls,
             nav_absorbed, nav_last, nav_clicked>>
cmtVars == <<comment_steps, textarea, presence_element, clickable_element, typed_into>>
runVars == <<cfgVars, bootVars, drvVars, outVars, loginVars, navVars, cmtVars,
             pc, pending, raised_at, ret, stage_calls>>
vars == <<envVars, runVars>>

\* exit_code and ret before any return statement ran.
NoExit == -1

\* The selector strategies of post_selectors (line 237-241).
NumSelectors == 3
\* range(10), line 243.
MaxIterations == 10

\* ---------------------------------------------------------- the .env files

\* Raw texts of a required key's line.
RawRequired == {None, Some(<<DQ, DQ>>), Some(<<"u">>)}

\* Raw texts of CHROME_HEADLESS.
RawHeadless == {None, Some(<<"0">>), Some(<<"O", "N">>)}

\* Raw texts of CHROME_USER_DATA_DIR.
RawProfileDir ==
    {None,
     Some(<<SQ, " ", SQ>>),
     Some(<<"n", "o", "n", "e">>),
     Some(<<"D", "i", "s", "a", "b", "l", "e">>),
     Some(<<DQ, " ", "d", "i", "s", "a", "b", "l", "e", "d", DQ>>),
     Some(<<"n", "o">>),
     Some(<<"/", "p">>)}

EnvFiles ==
    {f \in [AllKeys -> RawRequired \cup RawHeadless \cup RawProfileDir] :
        /\ \A i \in 1..Len(RequiredKeys) : f[RequiredKeys[i]] \in RawRequired
        /\ f[ENV_CHROME_HEADLESS] \in RawHeadless
        /\ f[ENV_CHROME_PROFILE_DIR] \in RawProfileDir}

EmptyFile == [k \in AllKeys |-> None]

\* load_env on a file that holds one "key=raw" line for each key it has.
LoadEnv(file) == [k \in AllKeys |-> IF file[k].some THEN Some(ParseValue(file[k].val)) ELSE None]

\* ----------------------------------------------------------------- Init

RunIdle ==
    /\ env_values = EmptyFile
    /\ required_values = [i \in 1..Len(RequiredKeys) |-> <<>>]
    /\ headless = TRUE
    /\ user_data_dir = None
    /\ attempts = <<>>
    /\ attempt_idx = 0
    /\ last_error = NoExc
    /\ attempts_made = <<>>
    /\ attempt_errors = <<>>
    /\ driver = "none"
    /\ handles_created = 0
    /\ quit_count = 0
    /\ op_after_quit = FALSE
    /\ pending = NoExc
    /\ raised_at = ""
    /\ ret = NoExit
    /\ exit_code = NoExit
    /\ unhandled = NoExc
    /\ stdout = <<>>
    /\ stderr = <<>>
    /\ stage_calls = <<>>
    /\ login_branch = ""
    /\ landmark_seen = FALSE
    /\ creds_typed = 0
    /\ form_submitted = FALSE
    /\ nav_iter = 0
    /\ nav_sel = 0
    /\ nav_finds = 0
    /\ nav_iter_candidates = 0
    /\ nav_page_scrolls = 0
    /\ nav_absorbed = "none"
    /\ nav_last = [at |-> "", type |-> ""]
    /\ nav_clicked = FALSE
    /\ comment_steps = <<>>
    /\ textarea = 0
    /\ presence_element = 0
    /\ clickable_element = 0
    /\ typed_into = {}

Init ==
    /\ env_line = <<>>
    /\ env_entry = [done |-> FALSE, skipped |-> FALSE, key |-> <<>>, value |-> <<>>]
    /\ file_exists \in BOOLEAN
    /\ env_file \in (IF file_exists THEN EnvFiles ELSE {EmptyFile})
    /\ pc = "load_env"
    /\ RunIdle

\* ------------------------------------------------------- main: configuration

ErrLine(prefix, text) == [prefix |-> prefix, text |-> text]

\* Lines 309-311: the handler of FileNotFoundError and EnvConfigError.
ConfigError(text) ==
    /\ stderr' = Append(stderr, ErrLine("Error:", text))
    /\ exit_code' = 1
    /\ pc' = "done"
    /\ UNCHANGED <<unhandled, stdout>>

\* Line 293 (load_env, lines 61-79).
MainLoadEnv ==
    /\ pc = "load_env"
    /\ IF ~file_exists
       THEN /\ ConfigError(<<"Environment file not found:", ".env">>)
            /\ UNCHANGED env_values
       ELSE /\ env_values' = LoadEnv(env_file)
            /\ pc' = "get_required"
            /\ UNCHANGED outVars
    /\ UNCHANGED <<envVars, file_exists, env_file, required_values, headless, user_data_dir,
                   bootVars, drvVars, loginVars, navVars, cmtVars, pending, raised_at, ret,
                   stage_calls>>

\* The first required key, in the order of lines 294-297, that get_required rejects
\* (0: none).
FirstRejected(values) ==
    LET bad == {i \in 1..Len(RequiredKeys) : ~GetRequired(values, RequiredKeys[i]).ok} IN
    IF bad = {} THEN 0 ELSE CHOOSE i \in bad : \A j \in bad : i <= j

\* Lines 294-297.
MainGetRequired ==
    /\ pc = "get_required"
    /\ LET i == FirstRejected(env_values) IN
       IF i # 0
       THEN /\ ConfigError(GetRequired(env_values, RequiredKeys[i]).error)
            /\ UNCHANGED required_values
       ELSE /\ required_values' =
                  [j \in 1..Len(RequiredKeys) |-> GetRequired(env_values, RequiredKeys[j]).value]
            /\ pc' = "get_optional"
            /\ UNCHANGED outVars
    /\ UNCHANGED <<envVars, file_exists, env_file, env_values, headless, user_data_dir,
                   bootVars, drvVars, loginVars, navVars, cmtVars, pending, raised_at, ret,
                   stage_calls>>

\* Lines 298-308.
MainGetOptional ==
    /\ pc = "get_optional"
    /\ headless' = StrToBool(GetOptional(env_values, ENV_CHROME_HEADLESS), TRUE)
    /\ user_data_dir' = UserDataDir(GetOptional(env_values, ENV_CHROME_PROFILE_DIR))
    /\ pc' = "build_driver"
    /\ UNCHANGED <<envVars, file_exists, env_file, env_values, required_values, bootVars,
                   drvVars, outVars, loginVars, navVars, cmtVars, pending, raised_at, ret,
                   stage_calls>>

\* ------------------------------------------------------------ build_driver

\* Line 313, lines 150-172: main calls build_driver, which builds its attempt list.
BuildAttempts ==
    /\ pc = "build_driver"
    /\ attempts' = Attempts(headless, user_data_dir)
    /\ attempt_idx' = 1
    /\ last_error' = NoExc
    /\ pc' = "start_attempt"
    /\ UNCHANGED <<envVars, cfgVars, attempts_made, attempt_errors, drvVars, outVars,
                   loginVars, navVars, cmtVars, pending, raised_at, ret, stage_calls>>

\* An exception leaves build_driver: line 313 is outside main's try block, so it
\* leaves main too.
BuildRaise(e) ==
    /\ unhandled' = e
    /\ raised_at' = "build_driver"
    /\ pc' = "done"
    /\ UNCHANGED <<exit_code, stdout>>

Made(a) == [headless |-> a.headless, dir |-> a.dir]

\* Lines 179-185 with the recoverable-failure test dropped: every failure is retried.
OnSessionNotCreated_RetryAll(a, e) ==
    /\ last_error' = e
    /\ attempt_errors' = Append(attempt_errors, e)
    /\ stderr' = IF a.message # NoMessage
                 THEN Append(stderr, ErrLine("warning", <<a.message>>)) ELSE stderr
    /\ attempt_idx' = attempt_idx + 1
    /\ UNCHANGED <<pc, exit_code, unhandled, stdout, raised_at>>

\* Lines 179-185: the handler of a SessionNotCreatedException e met by attempt a.
OnSessionNotCreated(a, e) ==
    /\ last_error' = e
    /\ attempt_errors' = Append(attempt_errors, e)
    /\ IF ~Recoverable(e)
       THEN /\ BuildRaise(e)
            /\ UNCHANGED <<stderr, attempt_idx>>
       ELSE /\ stderr' = IF a.message # NoMessage
                         THEN Append(stderr, ErrLine("warning", <<a.message>>)) ELSE stderr
            /\ attempt_idx' = attempt_idx + 1
            /\ UNCHANGED <<pc, exit_code, unhandled, stdout, raised_at>>

\* Lines 173-185: one pass of the for loop: webdriver.Chrome(options) returns a
\* handle, or raises SessionNotCreatedException, or raises something else.
StartAttempt ==
    /\ pc = "start_attempt"
    /\ attempt_idx <= Len(attempts)
    /\ attempts_made' = Append(attempts_made, Made(attempts[attempt_idx]))
    /\ LET a == attempts[attempt_idx] IN
       \/ /\ driver' = "live"
          /\ handles_created' = handles_created + 1
          /\ pc' = "build_return"
          /\ UNCHANGED <<last_error, attempt_idx, attempt_errors, outVars, raised_at,
                         quit_count, op_after_quit>>
       \/ /\ \E m \in StartMessages :
                 OnSessionNotCreated(a, Exc("SessionNotCreatedException", m))
          /\ UNCHANGED drvVars
       \/ /\ LET e == Exc("WebDriverException", Some(<<"chromedriver", "not", "found">>)) IN
             /\ attempt_errors' = Append(attempt_errors, e)
             /\ BuildRaise(e)
          /\ UNCHANGED <<last_error, attempt_idx, stderr, drvVars>>
    /\ UNCHANGED <<envVars, cfgVars, attempts, loginVars, navVars, cmtVars, pending, ret,
                   stage_calls>>

\* Line 178: the return; main binds the handle (line 313) and enters its try block.
\* The locals of build_driver and the failures its attempts met are dropped.
BuildReturn ==
    /\ pc = "build_return"
    /\ attempts' = <<>>
    /\ attempt_idx' = 0
    /\ last_error' = NoExc
    /\ attempt_errors' = <<>>
    /\ pc' = "login"
    /\ UNCHANGED <<envVars, cfgVars, attempts_made, drvVars, outVars, loginVars, navVars,
                   cmtVars, pending, raised_at, ret, stage_calls>>

\* Lines 186-188 with the first failure kept instead of the last one.
BuildExhausted_RaisesFirstError ==
    /\ pc = "start_attempt"
    /\ attempt_idx > Len(attempts)
    /\ IF attempt_errors # <<>>
       THEN BuildRaise(attempt_errors[1])
       ELSE BuildRaise(Exc("RuntimeError",
                           Some(<<"Chrome driver failed to start for an unknown reason">>)))
    /\ UNCHANGED <<envVars, cfgVars, bootVars, drvVars, stderr, loginVars, navVars, cmtVars,
                   pending, ret, stage_calls>>

\* Lines 186-188: the attempt list is exhausted.
BuildExhausted ==
    /\ pc = "start_attempt"
    /\ attempt_idx > Len(attempts)
    /\ IF last_error # NoExc
       THEN BuildRaise(last_error)
       ELSE BuildRaise(Exc("RuntimeError",
                           Some(<<"Chrome driver failed to start for an unknown reason">>)))
    /\ UNCHANGED <<envVars, cfgVars, bootVars, drvVars, stderr, loginVars, navVars, cmtVars,
                   pending, ret, stage_calls>>

\* ------------------------------------------------------------------ stages

\* A call on the session handle.
DriverCall ==
    /\ op_after_quit' = (op_after_quit \/ driver # "live")
    /\ UNCHANGED <<driver, handles_created, quit_count>>

\* An exception is raised inside main's try block by the call named at.
Raise(type, at) ==
    /\ pending' = Exc(type, Some(<<at>>))
    /\ raised_at' = at
    /\ pc' = "except"

\* The call returns and the run moves on.
Goto(next) ==
    /\ pc' = next
    /\ UNCHANGED <<pending, raised_at>>

\* What a driver.get may raise.
GetFailures == {"WebDriverException", "TimeoutException"}

\* ------------------------------------------------------------------- login

\* Lines 315, 194-196.
LoginGet ==
    /\ pc = "login"
    /\ stage_calls' = Append(stage_calls, "login")
    /\ DriverCall
    /\ \/ Goto("login_wait_loaded")
       \/ \E t \in GetFailures : Raise(t, "login.get")
    /\ UNCHANGED <<envVars, cfgVars, bootVars, outVars, loginVars, navVars, cmtVars, ret>>

\* Line 204: the form-or-redirect wait.
LoginWaitLoaded ==
    /\ pc = "login_wait_loaded"
    /\ DriverCall
    /\ \/ Goto("login_check_url")
       \/ Raise("TimeoutException", "login.wait_loaded")
    /\ UNCHANGED <<envVars, cfgVars, bootVars, outVars, loginVars, navVars, cmtVars, ret,
                   stage_calls>>

\* Line 206 with the branch dropped: the form is filled whatever the URL is.
LoginCheckUrl_AlwaysForm ==
    /\ pc = "login_check_url"
    /\ DriverCall
    /\ \E on_login_path \in BOOLEAN :
          /\ login_branch' = IF on_login_path THEN "form" ELSE "authenticated"
          /\ Goto("login_form")
    /\ UNCHANGED <<envVars, cfgVars, bootVars, outVars, landmark_seen, creds_typed,
                   form_submitted, navVars, cmtVars, ret, stage_calls>>

\* Line 206: the branch on driver.current_url, read again after the wait.
LoginCheckUrl ==
    /\ pc = "login_check_url"
    /\ DriverCall
    /\ \E on_login_path \in BOOLEAN :
          /\ login_branch' = IF on_login_path THEN "form" ELSE "authenticated"
          /\ Goto(IF on_login_path THEN "login_form" ELSE "login_authenticated")
    /\ UNCHANGED <<envVars, cfgVars, bootVars, outVars, landmark_seen, creds_typed,
                   form_submitted, navVars, cmtVars, ret, stage_calls>>

\* Lines 207-212 without the wait: login returns as soon as the URL left the login path.
LoginAuthenticated_NoWait ==
    /\ pc = "login_authenticated"
    /\ DriverCall
    /\ Goto("navigate")
    /\ UNCHANGED <<envVars, cfgVars, bootVars, outVars, loginVars, navVars, cmtVars, ret,
                   stage_calls>>

\* Lines 207-212: the already-authenticated path waits for the landmark and returns.
LoginAuthenticated ==
    /\ pc = "login_authenticated"
    /\ DriverCall
    /\ \/ /\ landmark_seen' = TRUE
          /\ Goto("navigate")
       \/ /\ Raise("TimeoutException", "login.wait_landmark")
          /\ UNCHANGED landmark_seen
    /\ UNCHANGED <<envVars, cfgVars, bootVars, outVars, login_branch, creds_typed,
                   form_submitted, navVars, cmtVars, ret, stage_calls>>

\* Lines 214-221: find the two fields, fill them, send ENTER.  n is the number of
\* these steps done before a call failed (3: none failed).
LoginFillForm ==
    /\ pc = "login_form"
    /\ DriverCall
    /\ \E n \in 0..3 :
          /\ creds_typed' = IF n >= 2 THEN 2 ELSE n
          /\ form_submitted' = (n = 3)
          /\ IF n = 3 THEN Goto("login_wait_landmark")
             ELSE IF n = 0 THEN Raise("NoSuchElementException", "login.find_element")
             ELSE Raise("WebDriverException", "login.send_keys")
    /\ UNCHANGED <<envVars, cfgVars, bootVars, outVars, login_branch, landmark_seen,
                   navVars, cmtVars, ret, stage_calls>>

\* Line 225: the post-login landmark wait.
LoginWaitLandmark ==
    /\ pc = "login_wait_landmark"
    /\ DriverCall
    /\ \/ /\ landmark_seen' = TRUE
          /\ Goto("navigate")
       \/ /\ Raise("TimeoutException", "login.wait_landmark")
          /\ UNCHANGED landmark_seen
    /\ UNCHANGED <<envVars, cfgVars, bootVars, outVars, login_branch, creds_typed,
                   form_submitted, navVars, cmtVars, ret, stage_calls>>

\* ------------------------------------------------- navigate_to_first_post

\* Lines 316, 231.
NavGet ==
    /\ pc = "navigate"
    /\ stage_calls' = Append(stage_calls, "navigate_to_first_post")
    /\ DriverCall
    /\ \/ Goto("nav_wait_main")
       \/ \E t \in GetFailures : Raise(t, "navigate.get")
    /\ UNCHANGED <<envVars, cfgVars, bootVars, outVars, loginVars, navVars, cmtVars, ret>>

\* Line 234: the wait for the main content region; then the loops start.
NavWaitMain ==
    /\ pc = "nav_wait_main"
    /\ DriverCall
    /\ \/ /\ Goto("nav_loop")
          /\ nav_sel' = 1
          /\ UNCHANGED <<nav_iter, nav_finds, nav_iter_candidates, nav_page_scrolls,
                         nav_absorbed, nav_last, nav_clicked>>
       \/ /\ Raise("TimeoutException", "navigate.wait_main")
          /\ UNCHANGED navVars
    /\ UNCHANGED <<envVars, cfgVars, bootVars, outVars, loginVars, cmtVars, ret, stage_calls>>

\* What the 5-second wait of lines 252-256 may raise, and the click of line 257.
ClickWaitFailures == {"StaleElementReferenceException", "TimeoutException", "WebDriverException"}
ClickFailures == {"StaleElementReferenceException", "WebDriverException"}

\* An exception is raised inside navigate_to_first_post.
NavRaise(type, at) ==
    /\ pending' = Exc(type, Some(<<at>>))
    /\ raised_at' = at
    /\ pc' = "nav_raise"

AbsorbedNow(at, type) ==
    IF at = "wait" /\ type = "TimeoutException" /\ nav_absorbed # "mixed"
    THEN "wait_timeouts" ELSE "mixed"

\* Lines 259-262 with only the first except clause: other WebDriver failures escape.
Absorb_StaleAndTimeoutOnly(at, type) ==
    IF type \in {"StaleElementReferenceException", "TimeoutException"}
    THEN /\ nav_absorbed' = AbsorbedNow(at, type)
         /\ nav_last' = [at |-> at, type |-> type]
         /\ nav_sel' = nav_sel + 1
         /\ UNCHANGED <<pc, pending, raised_at>>
    ELSE /\ NavRaise(type, "navigate." \o at)
         /\ UNCHANGED <<nav_absorbed, nav_last, nav_sel>>

\* Lines 259-262 with the same selector tried again after a dropped failure.
Absorb_RetrySameSelector(at, type) ==
    /\ nav_absorbed' = AbsorbedNow(at, type)
    /\ nav_last' = [at |-> at, type |-> type]
    /\ nav_sel' = nav_sel
    /\ UNCHANGED <<pc, pending, raised_at>>

\* Lines 259-262: the failure is dropped and the inner loop continues.
Absorb(at, type) ==
    /\ nav_absorbed' = AbsorbedNow(at, type)
    /\ nav_last' = [at |-> at, type |-> type]
    /\ nav_sel' = nav_sel + 1
    /\ UNCHANGED <<pc, pending, raised_at>>

\* Lines 245-262: one pass of the inner loop, for the selector nav_sel.
NavTrySelector ==
    /\ pc = "nav_loop"
    /\ nav_sel \in 1..NumSelectors
    /\ DriverCall
    /\ nav_finds' = nav_finds + 1
    /\ \/ \* find_elements raises
          /\ NavRaise("WebDriverException", "navigate.find_elements")
          /\ UNCHANGED <<nav_sel, nav_iter_candidates, nav_absorbed, nav_last, nav_clicked>>
       \/ \* no match for this selector
          /\ nav_sel' = nav_sel + 1
          /\ UNCHANGED <<pc, pending, raised_at, nav_iter_candidates, nav_absorbed,
                         nav_last, nav_clicked>>
       \/ \* a match; scrolling it into view raises (line 248 is outside the try)
          /\ nav_iter_candidates' = nav_iter_candidates + 1
          /\ NavRaise("StaleElementReferenceException", "navigate.scroll_into_view")
          /\ UNCHANGED <<nav_sel, nav_absorbed, nav_last, nav_clicked>>
       \/ \* a match; the displayed-and-enabled wait fails
          /\ nav_iter_candidates' = nav_iter_candidates + 1
          /\ \E t \in ClickWaitFailures : Absorb("wait", t)
          /\ UNCHANGED nav_clicked
       \/ \* a match; the click fails
          /\ nav_iter_candidates' = nav_iter_candidates + 1
          /\ \E t \in ClickFailures : Absorb("click", t)
          /\ UNCHANGED nav_clicked
       \/ \* a match; the click succeeds and navigate_to_first_post returns
          /\ nav_iter_candidates' = nav_iter_candidates + 1
          /\ nav_clicked' = TRUE
          /\ Goto("nav_return")
          /\ UNCHANGED <<nav_sel, nav_absorbed, nav_last>>
    /\ UNCHANGED <<envVars, cfgVars, bootVars, outVars, loginVars, nav_iter, nav_page_scrolls,
                   cmtVars, ret, stage_calls>>

\* Lines 263-264 under 'while True' instead of 'for _ in range(10)'.
NavScrollPage_NoIterationBound ==
    /\ pc = "nav_loop"
    /\ nav_sel = NumSelectors + 1
    /\ DriverCall
    /\ \/ /\ nav_page_scrolls' = nav_page_scrolls + 1
          /\ nav_iter' = nav_iter + 1
          /\ nav_sel' = 1
          /\ nav_iter_candidates' = 0
          /\ Goto("nav_loop")
       \/ /\ NavRaise("WebDriverException", "navigate.scroll_page")
          /\ UNCHANGED <<nav_page_scrolls, nav_iter, nav_sel, nav_iter_candidates>>
    /\ UNCHANGED <<envVars, cfgVars, bootVars, outVars, loginVars, nav_finds, nav_absorbed,
                   nav_last, nav_clicked, cmtVars, ret, stage_calls>>

\* Lines 263-264 and the step of the outer loop: scroll the page, sleep, next iteration.
NavScrollPage ==
    /\ pc = "nav_loop"
    /\ nav_sel = NumSelectors + 1
    /\ DriverCall
    /\ \/ /\ nav_page_scrolls' = nav_page_scrolls + 1
          /\ nav_iter' = nav_iter + 1
          /\ IF nav_iter + 1 < MaxIterations
             THEN /\ nav_sel' = 1
                  /\ nav_iter_candidates' = 0
                  /\ Goto("nav_loop")
             ELSE /\ Goto("nav_exhausted")
                  /\ UNCHANGED <<nav_sel, nav_iter_candidates>>
       \/ /\ NavRaise("WebDriverException", "navigate.scroll_page")
          /\ UNCHANGED <<nav_page_scrolls, nav_iter, nav_sel, nav_iter_candidates>>
    /\ UNCHANGED <<envVars, cfgVars, bootVars, outVars, loginVars, nav_finds, nav_absorbed,
                   nav_last, nav_clicked, cmtVars, ret, stage_calls>>

\* Line 266 raising a TimeoutException instead of a RuntimeError.
NavExhausted_RaisesTimeout ==
    /\ pc = "nav_exhausted"
    /\ NavRaise("TimeoutException", "navigate.no_posts")
    /\ UNCHANGED <<envVars, cfgVars, bootVars, drvVars, outVars, loginVars, navVars, cmtVars,
                   ret, stage_calls>>

\* Line 266.
NavExhausted ==
    /\ pc = "nav_exhausted"
    /\ NavRaise("RuntimeError", "navigate.no_posts")
    /\ UNCHANGED <<envVars, cfgVars, bootVars, drvVars, outVars, loginVars, navVars, cmtVars,
                   ret, stage_calls>>

\* The loop variables and the counters of the call, as they are outside a call.
NavFrameDropped ==
    /\ nav_iter' = 0
    /\ nav_sel' = 0
    /\ nav_finds' = 0
    /\ nav_iter_candidates' = 0
    /\ nav_page_scrolls' = 0
    /\ nav_last' = [at |-> "", type |-> ""]

\* Line 258: the return.
NavReturn ==
    /\ pc = "nav_return"
    /\ Goto("leave_comment")
    /\ NavFrameDropped
    /\ UNCHANGED <<envVars, cfgVars, bootVars, drvVars, outVars, loginVars, nav_absorbed,
                   nav_clicked, cmtVars, ret, stage_calls>>

\* The exception leaves navigate_to_first_post and reaches the try block of main.
NavUnwind ==
    /\ pc = "nav_raise"
    /\ pc' = "except"
    /\ NavFrameDropped
    /\ UNCHANGED <<envVars, cfgVars, bootVars, drvVars, outVars, loginVars, nav_absorbed,
                   nav_clicked, cmtVars, pending, raised_at, ret, stage_calls>>

\* ------------------------------------------------------------ leave_comment

\* The elements a wait for the comment input may return.
Elements == {1, 2}

\* Lines 317, 272-275: the presence wait.
CommentWaitPresence ==
    /\ pc = "leave_comment"
    /\ stage_calls' = Append(stage_calls, "leave_comment")
    /\ comment_steps' = Append(comment_steps, "wait_presence")
    /\ DriverCall
    /\ \/ /\ \E e \in Elements : textarea' = e /\ presence_element' = e
          /\ Goto("comment_click")
       \/ /\ Raise("TimeoutException", "comment.wait_presence")
          /\ UNCHANGED <<textarea, presence_element>>
    /\ UNCHANGED <<envVars, cfgVars, bootVars, outVars, loginVars, navVars, clickable_element,
                   typed_into, ret>>

\* Line 276.
CommentClick ==
    /\ pc = "comment_click"
    /\ comment_steps' = Append(comment_steps, "click")
    /\ DriverCall
    /\ \/ Goto("comment_wait_clickable")
       \/ \E t \in ClickFailures : Raise(t, "comment.click")
    /\ UNCHANGED <<envVars, cfgVars, bootVars, outVars, loginVars, navVars, textarea,
                   presence_element, clickable_element, typed_into, ret, stage_calls>>

\* Line 277 with the result of the wait thrown away: textarea stays what the
\* presence wait returned.
CommentWaitClickable_NoRebind ==
    /\ pc = "comment_wait_clickable"
    /\ comment_steps' = Append(comment_steps, "wait_clickable")
    /\ DriverCall
    /\ \/ /\ \E e \in Elements : clickable_element' = e
          /\ Goto("comment_type")
       \/ /\ Raise("TimeoutException", "comment.wait_clickable")
          /\ UNCHANGED clickable_element
    /\ UNCHANGED <<envVars, cfgVars, bootVars, outVars, loginVars, navVars, textarea,
                   presence_element, typed_into, ret, stage_calls>>

\* Line 277: the clickable wait, whose result replaces textarea.
CommentWaitClickable ==
    /\ pc = "comment_wait_clickable"
    /\ comment_steps' = Append(comment_steps, "wait_clickable")
    /\ DriverCall
    /\ \/ /\ \E e \in Elements : textarea' = e /\ clickable_element' = e
          /\ Goto("comment_type")
       \/ /\ Raise("TimeoutException", "comment.wait_clickable")
          /\ UNCHANGED <<textarea, clickable_element>>
    /\ UNCHANGED <<envVars, cfgVars, bootVars, outVars, loginVars, navVars, presence_element,
                   typed_into, ret, stage_calls>>

\* Line 278.
CommentType ==
    /\ pc = "comment_type"
    /\ comment_steps' = Append(comment_steps, "type")
    /\ DriverCall
    /\ \/ /\ typed_into' = typed_into \cup {textarea}
          /\ Goto("comment_submit")
       \/ /\ \E t \in ClickFailures : Raise(t, "comment.type")
          /\ UNCHANGED typed_into
    /\ UNCHANGED <<envVars, cfgVars, bootVars, outVars, loginVars, navVars, textarea,
                   presence_element, clickable_element, ret, stage_calls>>

\* Line 279.
CommentSubmit ==
    /\ pc = "comment_submit"
    /\ comment_steps' = Append(comment_steps, "submit")
    /\ DriverCall
    /\ \/ Goto("comment_sleep")
       \/ \E t \in ClickFailures : Raise(t, "comment.submit")
    /\ UNCHANGED <<envVars, cfgVars, bootVars, outVars, loginVars, navVars, textarea,
                   presence_element, clickable_element, typed_into, ret, stage_calls>>

\* Line 282: the fixed delay; the try block of main then ends normally.
CommentSleep ==
    /\ pc = "comment_sleep"
    /\ comment_steps' = Append(comment_steps, "sleep")
    /\ Goto("finally")
    /\ UNCHANGED <<envVars, cfgVars, bootVars, drvVars, outVars, loginVars, navVars, textarea,
                   presence_element, clickable_element, typed_into, ret, stage_calls>>

\* -------------------------------------------------------- main: the handlers

\* Lines 318-323: the exit code of the except clause that catches e.
HandlerCode_AllUnexpected(e) == 3

HandlerCode(e) == IF e.type = "TimeoutException" THEN 2 ELSE 3

HandlerPrefix(code) == IF code = 2 THEN "Automation timed out:" ELSE "Unexpected error:"

\* Lines 318-323 with the return statements of the except clauses left out.
MainExcept_NoReturn ==
    /\ pc = "except"
    /\ stderr' = Append(stderr, ErrLine(HandlerPrefix(HandlerCode(pending)), ExcText(pending)))
    /\ pending' = NoExc
    /\ pc' = "finally"
    /\ UNCHANGED <<envVars, cfgVars, bootVars, drvVars, exit_code, unhandled, stdout,
                   loginVars, navVars, cmtVars, raised_at, ret, stage_calls>>

\* Lines 318-323 with a handler that starts the stages over instead of returning.
MainExcept_StartsOver ==
    /\ pc = "except"
    /\ stderr' = Append(stderr, ErrLine(HandlerPrefix(HandlerCode(pending)), ExcText(pending)))
    /\ pending' = NoExc
    /\ pc' = "login"
    /\ UNCHANGED <<envVars, cfgVars, bootVars, drvVars, exit_code, unhandled, stdout,
                   loginVars, navVars, cmtVars, raised_at, ret, stage_calls>>

\* Lines 318-323: the matching except clause prints and returns; the return value
\* waits for the finally block.
MainExcept ==
    /\ pc = "except"
    /\ ret' = HandlerCode(pending)
    /\ stderr' = Append(stderr, ErrLine(HandlerPrefix(ret'), ExcText(pending)))
    /\ pending' = NoExc
    /\ pc' = "finally"
    /\ UNCHANGED <<envVars, cfgVars, bootVars, drvVars, exit_code, unhandled, stdout,
                   loginVars, navVars, cmtVars, raised_at, stage_calls>>

\* Lines 324-325 with the quit left out when a handler has returned.
MainFinally_QuitOnSuccessOnly ==
    /\ pc = "finally"
    /\ IF ret # NoExit
       THEN /\ exit_code' = ret
            /\ pc' = "done"
            /\ UNCHANGED <<driver, quit_count>>
       ELSE /\ driver' = "quit"
            /\ quit_count' = quit_count + 1
            /\ pc' = "success"
            /\ UNCHANGED exit_code
    /\ UNCHANGED <<envVars, cfgVars, bootVars, handles_created, op_after_quit, unhandled,
                   stdout, stderr, loginVars, navVars, cmtVars, pending, raised_at, ret,
                   stage_calls>>

\* Lines 324-325: driver.quit(), then the pending return, or on to line 327.
\* driver.quit() is taken to return: nothing in main handles a failure of it.
MainFinally ==
    /\ pc = "finally"
    /\ driver' = "quit"
    /\ quit_count' = quit_count + 1
    /\ IF ret # NoExit
       THEN /\ exit_code' = ret
            /\ pc' = "done"
       ELSE /\ pc' = "success"
            /\ UNCHANGED exit_code
    /\ UNCHANGED <<envVars, cfgVars, bootVars, handles_created, op_after_quit, unhandled,
                   stdout, stderr, loginVars, navVars, cmtVars, pending, raised_at, ret,
                   stage_calls>>

SuccessLine == "Comment posted successfully!"

\* Lines 327-328.
MainSuccess ==
    /\ pc = "success"
    /\ stdout' = Append(stdout, SuccessLine)
    /\ exit_code' = 0
    /\ pc' = "done"
    /\ UNCHANGED <<envVars, cfgVars, bootVars, drvVars, unhandled, stderr, loginVars, navVars,
                   cmtVars, pending, raised_at, ret, stage_calls>>

\* ------------------------------------------------------------ specifications

Next ==
    \/ MainLoadEnv
    \/ MainGetRequired
    \/ MainGetOptional
    \/ BuildAttempts
    \/ StartAttempt
    \/ BuildReturn
    \/ BuildExhausted
    \/ LoginGet
    \/ LoginWaitLoaded
    \/ LoginCheckUrl
    \/ LoginAuthenticated
    \/ LoginFillForm
    \/ LoginWaitLandmark
    \/ NavGet
    \/ NavWaitMain
    \/ NavTrySelector
    \/ NavScrollPage
    \/ NavExhausted
    \/ NavReturn
    \/ NavUnwind
    \/ CommentWaitPresence
    \/ CommentClick
    \/ CommentWaitClickable
    \/ CommentType
    \/ CommentSubmit
    \/ CommentSleep
    \/ MainExcept
    \/ MainFinally
    \/ MainSuccess

\* A run of main on one .env file.
Spec == Init /\ [][Next]_vars

\* main runs on one thread and every driver call and bounded wait returns or
\* raises, so a run that has a next step takes it.
SpecFair == Spec /\ WF_vars(Next)

\* load_env on every short line.
LineAlphabet == {"k", "=", DQ, SQ, " ", "#"}

InitEnv ==
    /\ env_line \in SeqsUpTo(LineAlphabet, MaxLineLen)
    /\ env_entry = [done |-> FALSE, skipped |-> FALSE, key |-> <<>>, value |-> <<>>]
    /\ file_exists = TRUE
    /\ env_file = EmptyFile
    /\ pc = "load_env_line"
    /\ RunIdle

\* Lines 66-78: load_env reads the line and stores what it parsed.
LoadEnvLine ==
    /\ pc = "load_env_line"
    /\ ~env_entry.done
    /\ LET p == ParseLine(env_line) IN
       env_entry' = [done |-> TRUE, skipped |-> p.skipped, key |-> p.key, value |-> p.value]
    /\ UNCHANGED <<env_line, runVars>>

NextEnv == LoadEnvLine

SpecEnv == InitEnv /\ [][NextEnv]_vars

\* ------------------------------------------------------------------ claims

STAGE_LOGIN == "login"
STAGE_NAVIGATE == "navigate_to_first_post"
STAGE_COMMENT == "leave_comment"

Last(s) == s[Len(s)]

IsPrefix(s, t) == Len(s) <= Len(t) /\ \A i \in 1..Len(s) : s[i] = t[i]

\* main has finished: it returned an exit code or an exception left it.
Finished == pc = "done"

\* build_driver has been called.
BuildInvoked == attempts # <<>> \/ attempts_made # <<>>

\* C1: a handle that build_driver returned is quit exactly once by the time main
\* finishes, on every outcome, no driver call is issued on it after the quit (the
\* run is past its stages once it is quit), and without a handle nothing is quit.
C1_HandleQuitExactlyOnce ==
    /\ quit_count <= handles_created
    /\ quit_count <= 1
    /\ (Finished /\ handles_created > 0) => (quit_count = 1 /\ driver = "quit")
    /\ handles_created = 0 => (quit_count = 0 /\ driver = "none")
    /\ ~op_after_quit
    /\ driver = "quit" => pc \in {"success", "done"}

\* C1 witness: a run that created a handle and ended with exit code 3 has quit it once.
C1_Witness ==
    Finished /\ handles_created = 1 /\ exit_code = 3 /\ quit_count = 1 /\ driver = "quit"

\* A required key whose line is missing from the file, or whose stored value is empty.
KeyMissingOrEmpty(k) == ~env_file[k].some \/ LoadEnv(env_file)[k].val = <<>>

BadConfig == ~file_exists \/ \E i \in 1..Len(RequiredKeys) : KeyMissingOrEmpty(RequiredKeys[i])

\* C2: with the file missing or a required key absent or empty, main returns 1 and
\* build_driver is never called (no attempt, no handle); build_driver is called only
\* with all four required values read and non-empty.
C2_ConfigValidatedBeforeBootstrap ==
    /\ BadConfig =>
          /\ ~BuildInvoked
          /\ pc \in {"load_env", "get_required", "done"}
          /\ handles_created = 0 /\ driver = "none"
          /\ Finished => (exit_code = 1 /\ unhandled = NoExc)
    /\ (pc = "build_driver" \/ BuildInvoked) =>
          /\ file_exists
          /\ \A i \in 1..Len(RequiredKeys) :
                /\ env_values[RequiredKeys[i]].some
                /\ env_values[RequiredKeys[i]].val # <<>>
                /\ required_values[i] = env_values[RequiredKeys[i]].val

\* C2 witness: the file has every required key, INSTAGRAM_COMMENT with the value "",
\* and main has returned 1.
C2_Witness ==
    /\ Finished /\ exit_code = 1 /\ file_exists
    /\ env_file[ENV_COMMENT_KEY] = Some(<<DQ, DQ>>)
    /\ \A i \in 1..Len(RequiredKeys) : env_file[RequiredKeys[i]].some
    /\ Last(stderr) = ErrLine("Error:", <<"Environment variable", ENV_COMMENT_KEY, "is empty">>)

\* C3: every run of main ends by returning an exit code in {0, 1, 2, 3}; no exception
\* leaves main, and a failure of build_driver gives exit code 3 and a line on stderr.
C3_EveryRunReturnsAnExitCode ==
    Finished =>
        /\ exit_code \in {0, 1, 2, 3}
        /\ unhandled = NoExc
        /\ raised_at = "build_driver" =>
              (exit_code = 3 /\ stderr # <<>> /\ Last(stderr).prefix = "Unexpected error:")

\* The bounded waits whose timeout no stage absorbs, with the stage each belongs to.
UnabsorbedWaits ==
    {"login.wait_loaded", "login.wait_landmark", "navigate.wait_main",
     "comment.wait_presence", "comment.wait_clickable"}

StagesUpTo(at) ==
    IF at \in {"login.wait_loaded", "login.wait_landmark"} THEN <<STAGE_LOGIN>>
    ELSE IF at = "navigate.wait_main" THEN <<STAGE_LOGIN, STAGE_NAVIGATE>>
    ELSE <<STAGE_LOGIN, STAGE_NAVIGATE, STAGE_COMMENT>>

\* C4: when one of the unabsorbed bounded waits expires, no later stage is started,
\* and main ends with exit code 2, an 'Automation timed out' line on stderr, no
\* success line, and the session quit.
C4_TimeoutGivesExitCode2 ==
    raised_at \in UnabsorbedWaits =>
        /\ pc \in {"except", "finally", "done"}
        /\ stage_calls = StagesUpTo(raised_at)
        /\ pc = "except" => pending.type = "TimeoutException"
        /\ Finished =>
              /\ exit_code = 2
              /\ Last(stderr).prefix = "Automation timed out:"
              /\ stdout = <<>>
              /\ quit_count = 1 /\ driver = "quit"

\* C4 witness: the wait for the main content region expired and main returned 2.
C4_Witness ==
    Finished /\ raised_at = "navigate.wait_main" /\ exit_code = 2 /\ driver = "quit"

\* C5: main returns 0 exactly when the bootstrap gave a handle and login,
\* navigate_to_first_post and leave_comment were each called once, in this order,
\* and completed with no failure; the success line is then on stdout exactly once,
\* and it is never written in a run that does not return 0.
C5_ExitCode0IffAllStagesCompleted ==
    /\ Finished =>
          (exit_code = 0 <=>
              /\ handles_created = 1
              /\ stage_calls = <<STAGE_LOGIN, STAGE_NAVIGATE, STAGE_COMMENT>>
              /\ raised_at = ""
              /\ landmark_seen /\ nav_clicked
              /\ comment_steps # <<>> /\ Last(comment_steps) = "sleep")
    /\ exit_code = 0 => stdout = <<SuccessLine>>
    /\ stdout # <<>> => (stdout = <<SuccessLine>> /\ exit_code = 0)

\* C5 witness: a run that returned 0 after the three stages, with the success line.
C5_Witness ==
    /\ Finished /\ exit_code = 0 /\ stdout = <<SuccessLine>>
    /\ stage_calls = <<STAGE_LOGIN, STAGE_NAVIGATE, STAGE_COMMENT>>

\* The start failures the claim calls recognized.
RecognizedSymptom(e) ==
    /\ e.type = "SessionNotCreatedException"
    /\ e.msg.some
    /\ \E i \in 1..Len(e.msg.val) : e.msg.val[i] \in {"DevToolsActivePort", "crashed"}

\* build_driver has failed: an exception left it.
BuildFailed == Finished /\ raised_at = "build_driver"

\* C6: an attempt that failed is followed by another attempt only if its failure is
\* a session-not-created failure naming 'DevToolsActivePort' or 'crashed'; any other
\* failure, on whichever attempt, ends build_driver at once with that error; and a
\* headless first attempt that failed with a recognized symptom is followed by a
\* visible-mode attempt before build_driver fails.
C6_OnlyRecognizedFailuresAreRetried ==
    /\ Len(attempt_errors) <= Len(attempts_made)
    /\ \A i \in 1..Len(attempt_errors) :
          /\ i < Len(attempts_made) => RecognizedSymptom(attempt_errors[i])
          /\ ~RecognizedSymptom(attempt_errors[i]) =>
                /\ BuildFailed
                /\ unhandled = attempt_errors[i]
                /\ i = Len(attempts_made)
    /\ (BuildFailed /\ attempts_made[1].headless /\ RecognizedSymptom(attempt_errors[1])) =>
          (Len(attempts_made) >= 2 /\ ~attempts_made[2].headless)

\* C6 witness: the headless attempt failed with a recognized symptom, the visible
\* attempt with an empty message, and build_driver failed with it after two attempts.
C6_Witness ==
    /\ BuildFailed /\ Len(attempts_made) = 2 /\ Len(attempts) = 3
    /\ attempts_made[1].headless
    /\ RecognizedSymptom(attempt_errors[1])
    /\ unhandled = Exc("SessionNotCreatedException", Some(<<>>))

\* The attempts the claim lists for a request, in order.
ExpectedAttempts(h, d) ==
    <<[headless |-> h, dir |-> d]>>
    \o (IF h THEN <<[headless |-> FALSE, dir |-> d]>> ELSE <<>>)
    \o (IF d.some THEN <<[headless |-> FALSE, dir |-> None]>> ELSE <<>>)

\* build_driver gave up: every attempt of the list failed.
BuildExhaustedAll == BuildFailed /\ \A i \in 1..Len(attempt_errors) : RecognizedSymptom(attempt_errors[i])

\* C7: the attempts are started in the order (requested mode, requested directory),
\* then visible with the same directory if headless was requested, then visible
\* with no directory if a directory was requested; none is started after a success,
\* so at most one handle is created; a visible request without a directory makes
\* exactly one attempt; and when build_driver gives up on a request with a
\* directory, exactly one attempt, the last, was made without the directory, right
\* after a visible attempt with it.
C7_AttemptOrder ==
    /\ IsPrefix(attempts_made, ExpectedAttempts(headless, user_data_dir))
    /\ handles_created <= 1
    /\ handles_created = 1 => pc # "start_attempt"
    /\ pc = "build_return" =>
          (handles_created = 1 /\ Len(attempt_errors) = Len(attempts_made) - 1)
    /\ (~headless /\ ~user_data_dir.some) =>
          /\ Len(attempts_made) <= 1
          /\ (pc = "build_return" \/ BuildFailed) => Len(attempts_made) = 1
    /\ (BuildExhaustedAll /\ user_data_dir.some) =>
          LET n == Len(attempts_made) IN
          /\ n >= 2
          /\ attempts_made[n] = [headless |-> FALSE, dir |-> None]
          /\ attempts_made[n - 1] = [headless |-> FALSE, dir |-> user_data_dir]
          /\ \A i \in 1..(n - 1) : attempts_made[i].dir = user_data_dir

\* C7 witness: a visible request with a directory gave up after the attempt with the
\* directory and one attempt without it.
C7_Witness ==
    /\ BuildExhaustedAll /\ ~headless /\ user_data_dir.some
    /\ Len(attempts_made) = 2
    /\ attempts_made[2].dir = None

\* C8: a failure of the 5-second wait or of the click never leaves
\* navigate_to_first_post: it is absorbed and the inner loop goes on; the 'Could not
\* locate any posts' error is raised only after 10 iterations that each consulted
\* all three selectors (30 find_elements calls, 10 page scrolls) with no successful
\* click; and the successful click is the last thing the call does.
C8_ClickFailuresAbsorbed ==
    /\ raised_at \notin {"navigate.wait", "navigate.click"}
    /\ nav_last.at # "" => pc \in {"nav_loop", "nav_exhausted", "nav_raise", "nav_return"}
    /\ (pc = "nav_exhausted" \/ (raised_at = "navigate.no_posts" /\ pc = "nav_raise")) =>
          /\ nav_iter = MaxIterations
          /\ nav_finds = MaxIterations * NumSelectors
          /\ nav_page_scrolls = MaxIterations
          /\ ~nav_clicked
    /\ raised_at = "navigate.no_posts" => ~nav_clicked
    /\ nav_clicked => pc \notin {"nav_loop", "nav_exhausted", "nav_raise", "nav_wait_main"}
    /\ pc = "nav_return" =>
          /\ nav_clicked
          /\ nav_sel \in 1..NumSelectors
          /\ nav_page_scrolls = nav_iter
          /\ nav_finds = nav_iter * NumSelectors + nav_sel

\* C8 witness: in the last iteration a click failed with a WebDriver failure that is
\* neither stale nor timeout, and the loop is still running.
C8_Witness ==
    /\ pc = "nav_loop" /\ nav_iter = MaxIterations - 1
    /\ nav_last = [at |-> "click", type |-> "WebDriverException"]
    /\ nav_sel = NumSelectors

\* login has returned normally.
LoginReturned == pc = "navigate" \/ Len(stage_calls) >= 2

\* C9: login returns normally only after the '/explore/' link was found present in
\* that call, on the form path and on the already-authenticated path; when the
\* landmark wait expires, login fails with a timeout and navigate_to_first_post is
\* never called.
C9_LoginConfirmedByLandmark ==
    /\ LoginReturned => (landmark_seen /\ login_branch \in {"form", "authenticated"})
    /\ (LoginReturned /\ login_branch = "form") => (form_submitted /\ creds_typed = 2)
    /\ raised_at = "login.wait_landmark" =>
          /\ ~landmark_seen
          /\ stage_calls = <<STAGE_LOGIN>>
          /\ pc \in {"except", "finally", "done"}
          /\ pc = "except" => pending.type = "TimeoutException"
          /\ Finished => exit_code = 2

\* C9 witness: login returned on the already-authenticated path, the landmark seen.
C9_Witness ==
    pc = "navigate" /\ login_branch = "authenticated" /\ landmark_seen /\ creds_typed = 0

\* The text after the first "=" of the line, whitespace-trimmed.
TrimmedValue(raw_line) ==
    LET line == Strip(raw_line) IN Strip(SubSeq(line, FirstIndex(line, "=") + 1, Len(line)))

\* v is wrapped in a matching pair of the quote character q.
Wrapped(v, q) == Len(v) >= 2 /\ v[1] = q /\ v[Len(v)] = q

\* C10: for a parsed 'key=value' line, a trimmed value wrapped in a matching pair of
\* double or of single quotes is stored as the text between the quotes, and every
\* other trimmed value, a lone quote character among them, is stored unchanged.
C10_QuotesStrippedOnlyInPairs ==
    (env_entry.done /\ ~env_entry.skipped) =>
        LET v == TrimmedValue(env_line) IN
        IF Wrapped(v, DQ) \/ Wrapped(v, SQ)
        THEN env_entry.value = SubSeq(v, 2, Len(v) - 1)
        ELSE env_entry.value = v

\* The three stages after the bootstrap, in the order main calls them.
StageOrder == <<STAGE_LOGIN, STAGE_NAVIGATE, STAGE_COMMENT>>

\* The run is over or on its way out: a stage has failed, or the try block is left.
DoneOrFailed == raised_at # "" \/ pc \in {"except", "finally", "success", "done"}

\* What a started bootstrap attempt or a started stage operation adds to.
StartedWork == <<attempts_made, handles_created, stage_calls, creds_typed, comment_steps>>

\* Control is inside build_driver.
InBootstrap == pc \in {"build_driver", "start_attempt", "build_return"}

StagesInOrder ==
    /\ IsPrefix(stage_calls, StageOrder)
    /\ InBootstrap => stage_calls = <<>>
    /\ stage_calls # <<>> => (handles_created = 1 /\ attempts = <<>>)
    /\ Len(stage_calls) >= 2 => (landmark_seen /\ login_branch # "")
    /\ Len(stage_calls) >= 3 => nav_clicked
    /\ raised_at # "" => pc \in {"nav_raise", "except", "finally", "done"}

\* C11: the stages are entered in the order bootstrap, login, navigate_to_first_post,
\* leave_comment, each at most once and only after the one before it returned
\* normally (a live handle, the landmark seen, a post clicked), and once a stage has
\* failed or the try block is left, no bootstrap attempt and no stage operation is
\* started any more.
C11_StagesInOrderNoRestart ==
    /\ []StagesInOrder
    /\ [][DoneOrFailed => (DoneOrFailed' /\ UNCHANGED StartedWork)]_vars

\* C11 witness: the run failed in the third stage and is over, each stage entered once.
C11_Witness ==
    /\ Finished /\ exit_code = 3 /\ raised_at = "comment.submit"
    /\ stage_calls = StageOrder /\ Len(attempts_made) = 2 /\ handles_created = 1

\* The inner loop is about to look up the selector nav_sel.
AboutToConsult == pc = "nav_loop" /\ nav_sel \in 1..NumSelectors

\* C12 as stated: within one polling iteration at most one candidate is scrolled and
\* click-attempted, and once a selector has produced a match no further selector is
\* consulted in that iteration.
C12_FirstStrategyWins ==
    /\ nav_iter_candidates <= 1
    /\ AboutToConsult => nav_iter_candidates = 0

\* C12 amended: within one polling iteration the selectors are looked up in order,
\* each once, and each contributes at most one candidate; a selector is looked up
\* after an earlier one produced a candidate only when that candidate's wait or click
\* failed, so up to three candidates are acted on in an iteration, and after a
\* successful click no selector is looked up any more.
C12_OneCandidatePerStrategy ==
    /\ nav_iter_candidates <= NumSelectors
    /\ pc = "nav_loop" =>
          /\ nav_sel \in 1..(NumSelectors + 1)
          /\ nav_finds = nav_iter * NumSelectors + nav_sel - 1
          /\ nav_iter_candidates <= nav_sel - 1
          /\ nav_iter_candidates >= 1 => nav_last.at \in {"wait", "click"}
    /\ pc = "nav_return" => nav_iter_candidates <= nav_sel
    /\ nav_clicked => ~AboutToConsult

\* C12 witness: the third selector is about to be looked up after the candidates of
\* the first two both failed in the same iteration.
C12_Witness ==
    AboutToConsult /\ nav_sel = NumSelectors /\ nav_iter_candidates = 2 /\ nav_iter = 1

\* Where a candidate is handled inside navigate_to_first_post: line 248, lines
\* 252-256, line 257.
CandidateSteps == {"navigate.scroll_into_view", "navigate.wait", "navigate.click"}

\* C13: a failure of a single candidate (the element going stale while it is scrolled
\* into view, waited for or clicked) never leaves navigate_to_first_post: no
\* exception raised at one of these three steps ends the call.
C13_StaleCandidateNeverAborts ==
    /\ raised_at \notin CandidateSteps
    /\ ~(pc = "nav_raise" /\ pending.type = "StaleElementReferenceException")

\* The warning m has been written to stderr.
Announced(m) == \E i \in 1..Len(stderr) : stderr[i] = ErrLine("warning", <<m>>)

\* The warnings written so far.
WarningLines == SelectSeq(stderr, LAMBDA l : l.prefix = "warning")

\* The attempt i of the list has been started, or is the one about to be started.
StartedOrStarting(i) ==
    i <= Len(attempts_made) \/ (pc = "start_attempt" /\ i = attempt_idx)

\* C14: when a fallback attempt (any attempt after the first) is about to be
\* started, the warning it carries is already on stderr; every warning on stderr is
\* the one carried by a fallback attempt that is started; and no warning is written
\* when the first attempt succeeds.
C14_WarningBeforeFallbackAttempt ==
    /\ (pc = "start_attempt" /\ attempt_idx \in 2..Len(attempts)) =>
          Announced(attempts[attempt_idx].message)
    /\ attempts # <<>> =>
          \A k \in 1..Len(WarningLines) :
             \E i \in 2..Len(attempts) :
                /\ WarningLines[k].text = <<attempts[i].message>>
                /\ StartedOrStarting(i)
    /\ (pc = "build_return" /\ Len(attempts_made) = 1) => WarningLines = <<>>

\* The error with which build_driver reports an empty attempt loop (line 188).
UnknownReason ==
    Exc("RuntimeError", Some(<<"Chrome driver failed to start for an unknown reason">>))

\* C15: when every attempt failed with a recognized symptom, build_driver has made
\* each attempt of its list exactly once and raises the error of the last attempt;
\* build_driver returns only with a live handle; and it never raises the 'unknown
\* reason' error once an attempt has been made.
C15_ExhaustionRaisesLastError ==
    /\ BuildExhaustedAll =>
          /\ attempts_made = ExpectedAttempts(headless, user_data_dir)
          /\ Len(attempts_made) = Len(attempts)
          /\ Len(attempt_errors) = Len(attempts_made)
          /\ unhandled = Last(attempt_errors)
          /\ driver = "none" /\ handles_created = 0
    /\ pc = "build_return" => (driver = "live" /\ handles_created = 1)
    /\ stage_calls # <<>> => handles_created = 1
    /\ attempts_made # <<>> => unhandled # UnknownReason

\* C15 witness: three attempts failed with recognized symptoms, the first and the
\* last with different ones, and build_driver raised the last.
C15_Witness ==
    /\ BuildExhaustedAll /\ Len(attempts_made) = 3
    /\ attempt_errors[1] # attempt_errors[3]
    /\ unhandled = attempt_errors[3]

\* The steps of leave_comment, in the order of lines 273-282.
CommentOrder == <<"wait_presence", "click", "wait_clickable", "type", "submit", "sleep">>

\* The counts a run can reach: start attempts, polling iterations, page scrolls,
\* look-ups and candidates per iteration and in all (a candidate comes from one
\* look-up), and the steps that login and leave_comment take once.
RunBounds ==
    /\ Len(attempts_made) <= 3
    /\ nav_iter <= MaxIterations
    /\ nav_page_scrolls <= MaxIterations
    /\ nav_iter_candidates <= NumSelectors
    /\ nav_finds <= MaxIterations * NumSelectors
    /\ pc = "nav_loop" => nav_iter_candidates <= nav_finds - nav_iter * NumSelectors
    /\ creds_typed <= 2
    /\ Len(stage_calls) <= 3
    /\ Len(comment_steps) <= Len(CommentOrder)

\* C16: every run of main ends (with an exit code or with the exception that left
\* main), having made at most 3 start attempts, at most 10 polling iterations with
\* at most 3 candidates each (30 in all) and at most 10 page scrolls, and with login
\* and leave_comment taking each of their steps at most once.
C16_EveryRunTerminatesWithinBounds == []RunBounds /\ <>Finished

\* C16 witness: a run that ended after using up the ten polling iterations, three
\* bootstrap attempts before them.
C16_Witness ==
    /\ Finished /\ raised_at = "navigate.no_posts"
    /\ Len(attempts_made) = 3 /\ creds_typed = 2

\* C17: leave_comment takes its steps in the order presence wait, click, clickable
\* wait, typing, submit, fixed delay, none skipped and none repeated; the comment is
\* typed only into the element the clickable wait returned; and on the path without
\* a failure the handle is still live from the submit to the end of the delay, being
\* quit only after the delay.
C17_CommentStepsInOrder ==
    /\ IsPrefix(comment_steps, CommentOrder)
    /\ typed_into # {} =>
          /\ clickable_element # 0
          /\ typed_into = {clickable_element}
          /\ Len(comment_steps) >= 4
    /\ (pc \in {"comment_submit", "comment_sleep"} \/ (pc = "finally" /\ raised_at = "")) =>
          (driver = "live" /\ quit_count = 0 /\ typed_into # {})
    /\ pc = "comment_sleep" => comment_steps = SubSeq(CommentOrder, 1, 5)
    /\ (raised_at = "" /\ (pc \in {"finally", "success"} \/ Finished) /\ stage_calls # <<>>) =>
          comment_steps = CommentOrder
    /\ (driver = "quit" /\ raised_at = "") => comment_steps = CommentOrder

\* C17 witness: the delay is over on the path without a failure, the comment typed
\* into the element of the clickable wait, which is not the one of the presence wait.
C17_Witness ==
    /\ pc = "finally" /\ raised_at = "" /\ comment_steps = CommentOrder
    /\ presence_element = 1 /\ clickable_element = 2 /\ typed_into = {2}
    /\ driver = "live"

\* The calls whose TimeoutException reaches main's handler: the bounded waits that
\* are not absorbed, and the two page loads.
TimeoutSites == UnabsorbedWaits \cup {"login.get", "navigate.get"}

\* C18: when navigate_to_first_post has used up its ten iterations, the run ends
\* with exit code 3 and an 'Unexpected error' line, never with exit code 2, whatever
\* failures were absorbed on the way; an expired click wait never leaves
\* navigate_to_first_post, so exit code 2 always comes from another call.
C18_ExhaustionIsUnexpectedError ==
    /\ raised_at = "navigate.no_posts" =>
          /\ pc \in {"nav_raise", "except", "finally", "done"}
          /\ pc \in {"nav_raise", "except"} => pending.type = "RuntimeError"
          /\ pc = "finally" => ret = 3
          /\ exit_code \in {NoExit, 3}
          /\ Finished => (exit_code = 3 /\ Last(stderr).prefix = "Unexpected error:")
    /\ raised_at # "navigate.wait"
    /\ (ret = 2 \/ exit_code = 2) => raised_at \in TimeoutSites

\* C18 witness: the ten iterations were used up with nothing but expired click waits
\* absorbed, and the run ended with exit code 3.
C18_Witness ==
    /\ Finished /\ raised_at = "navigate.no_posts" /\ nav_absorbed = "wait_timeouts"
    /\ exit_code = 3 /\ Last(stderr).prefix = "Unexpected error:"

\* C19: login types the username and the password and submits the form only when
\* the URL read after the initial wait is still on the login path; when the URL has
\* left the login path, nothing is typed and nothing submitted, and login returns
\* after the landmark wait alone.
C19_CredentialsOnlyOnLoginPath ==
    /\ (creds_typed > 0 \/ form_submitted) => login_branch = "form"
    /\ pc = "login_form" => login_branch = "form"
    /\ pc = "login_authenticated" => login_branch = "authenticated"
    /\ login_branch \in {"", "authenticated"} => (creds_typed = 0 /\ ~form_submitted)
    /\ pc \in {"login", "login_wait_loaded", "login_check_url"} => login_branch = ""
    /\ (LoginReturned /\ login_branch = "authenticated") => landmark_seen

\* C19 witness: a run that found itself already signed in posted its comment without
\* typing a credential or submitting the form.
C19_Witness ==
    /\ Finished /\ exit_code = 0 /\ login_branch = "authenticated"
    /\ creds_typed = 0 /\ ~form_submitted /\ landmark_seen

\* The text the .env file gives for CHROME_USER_DATA_DIR (None: the key is absent).
ProfileDirSetting == env_file[ENV_CHROME_PROFILE_DIR]

\* The settings that read 'none', 'disable' or 'disabled' once quotes and outer
\* whitespace are removed and case is ignored.
SentinelSettings ==
    {<<"n", "o", "n", "e">>,
     <<"D", "i", "s", "a", "b", "l", "e">>,
     <<DQ, " ", "d", "i", "s", "a", "b", "l", "e", "d", DQ>>}

SetToSentinel == ProfileDirSetting.some /\ ProfileDirSetting.val \in SentinelSettings

\* The settings that are absent or blank.
AbsentOrBlank == ~ProfileDirSetting.some \/ ProfileDirSetting.val = <<SQ, " ", SQ>>

\* C20: the first bootstrap attempt carries no profile directory exactly when
\* CHROME_USER_DATA_DIR is 'none', 'disable' or 'disabled' in any case after trimming,
\* and then no attempt carries one; for every other setting the first attempt carries
\* a directory, the default one when the key is absent or blank and the given one
\* otherwise, and the attempt list ends with the attempt without a directory.
C20_ProfileDisabledOnlyBySentinel ==
    /\ attempts_made # <<>> =>
          /\ attempts_made[1].dir = None <=> SetToSentinel
          /\ AbsentOrBlank => attempts_made[1].dir = Some(DefaultProfileDir)
          /\ (~SetToSentinel /\ ~AbsentOrBlank) => attempts_made[1].dir = ProfileDirSetting
    /\ attempts # <<>> =>
          IF SetToSentinel
          THEN \A i \in 1..Len(attempts) : attempts[i].dir = None
          ELSE /\ Len(attempts) >= 2
               /\ attempts[1].dir.some
               /\ Last(attempts).dir = None

\* C20 witness: 'Disable' in the file, and a first attempt made without a directory.
C20_Witness ==
    /\ ProfileDirSetting = Some(<<"D", "i", "s", "a", "b", "l", "e">>)
    /\ attempts # <<>> /\ attempts_made # <<>> /\ attempts_made[1].dir = None
    /\ \A i \in 1..Len(attempts) : attempts[i].dir = None

====
